---- MODULE Spec2Model ----
(***************************************************************************)
(* Smart Home backend: message ingestion, state store and rule evaluation  *)
(* of the two SmartHomeBackend variants:                                   *)
(*   "backend_main"  src/backend_main.py with the paho-backed client       *)
(*                   src/src/mqtt_client.py and custom_on_message;         *)
(*   "main"          src/main.py with the MicroPython client               *)
(*                   src/mqtt_client.py.                                   *)
(* Sensor values are numbers (integers here, only compared with the        *)
(* thresholds); an absent value is None.                                   *)
(***************************************************************************)
EXTENDS Integers, Sequences, FiniteSets, TLC

VARIABLES
    variant,          \* which entry point runs
    connected,        \* MQTTClient.connected
    sensor_data,      \* SmartHomeBackend.sensor_data
    actuator_states,  \* SmartHomeBackend.actuator_states
    sent,             \* client.publish calls made by the last message handling
    saved_events,     \* database.save_actuator_event calls made by it
    saved_alerts,     \* database.save_alert calls made by it
    evaluated,        \* whether it ran the rules (passed the completeness test)
    last_msg,         \* the message it handled
    acts_before,      \* actuator_states when it started
    last_reading,     \* per kind, the value of the last sensor reading handled,
                      \* while every message handled was a sensor reading
    only_readings,    \* whether every message handled so far was a sensor reading
    hot_run,          \* the current run of evaluations with temperature above the threshold
    hum_run,          \* the current run of evaluations with humidity above the threshold
    scn,              \* progress of the spec's scenario and what it produced so far
    published,        \* per actuator, the last two commands published for it so far
    resumed,          \* 1 once a command was published, 2 once the session went down
                      \* after that, 3 once a command was published after that
    client,           \* the underlying client: 0 while MQTTClient.client is None
    open_conns,       \* the underlying clients whose connection to the broker is open
    subs,             \* <<client, filter>>: the subscriptions the broker holds
    loop_thread,      \* library-backed client: the network thread is running
    connack_pending,  \* library-backed client: connection opened, answer outstanding
    api,              \* the last publish operation called and what it reported
    wanted,           \* the filters that were subscribed when the session last went down
    watch,            \* which of the monitors are kept
    feed,             \* the messages the broker may deliver
    pc,               \* where main()/run() stands
    running,          \* SmartHomeBackend.running (main.py)
    now,              \* the clock, time.time()
    last_db_save,     \* SmartHomeBackend.last_db_save
    last_thingspeak,  \* SmartHomeBackend.last_thingspeak
    db_call,          \* what the last loop iteration's save_to_database came to
    ts_call,          \* what its send_to_thingspeak came to
    report_at,        \* when send_to_thingspeak was last invoked
    report_gap,       \* the time between its last two invocations
    startup,          \* how the connection attempt of run() ended
    exit_cause,       \* why the loop was left
    released,         \* whether cleanup invoked MQTTClient.disconnect
    cleaned,          \* how many times cleanup() ran and how the last run ended
    degraded,         \* whether a timer fired in an iteration that found the session down
    fault,            \* what became of an error raised while the last message was handled
    errs,             \* how many handlings so far raised an error
    writer,           \* the thread that last wrote sensor_data or actuator_states
    retried,          \* whether the session opened a connection nobody asked for
    failed,           \* how a call made for the last handling's fan transition failed
    pending,          \* how many messages the broker delivered that wait to be handled
    drift,            \* per timer, how late its last firing was, counted from the first
    db_args           \* the arguments save_sensor_reading was last called with

prog == <<variant, connected, sensor_data, actuator_states>>
outs == <<sent, saved_events, saved_alerts, evaluated>>
hist == <<last_msg, acts_before, last_reading, only_readings, hot_run, hum_run, scn,
         published>>
cmds == <<resumed, fault, errs, writer, failed, pending>>
tvars == <<client, open_conns, subs, loop_thread, connack_pending>>
sess == <<api, wanted, retried>>
mode == <<watch, feed>>
life == <<pc, running, now, last_db_save, last_thingspeak, db_call, ts_call,
         report_at, report_gap, exit_cause, released, cleaned, degraded,
         drift, db_args>>
vars == <<prog, outs, hist, cmds, tvars, sess, mode, life, startup>>

----------------------------------------------------------------------------
(* Values *)

\* Python's None, outside every set of sensor values.
None == -1

\* The value sensor_data["timestamp"] gets when a message is handled (which
\* reading of the clock it is is not kept).
Stamp == 1

\* How long the monitors of a run of evaluations count before saturating.
RunCap == 2

\* Variation: the fan threshold set to 30.
THRESHOLDS_Fan30 ==
    [temperature_high |-> 30, temperature_critical |-> 35,
     humidity_high |-> 70, light_threshold |-> 300]

THRESHOLDS ==
    [temperature_high |-> 28, temperature_critical |-> 35,
     humidity_high |-> 70, light_threshold |-> 300]

Kinds == {"temperature", "humidity", "light"}

\* The sensor_data key of a kind.
Key(k) == IF k = "light" THEN "light_level" ELSE k

\* The values the sensors publish, per kind.
Values ==
    [temperature |-> {20, 28, 30, 36}, humidity |-> {50, 70, 80},
     light |-> {100, 300, 500}]

SensorTopic(k) == <<"smarthome", "sensors", k>>
CommandTopic(a) == <<"smarthome", "commands", a>>
AlertTopic == <<"smarthome", "alerts">>

----------------------------------------------------------------------------
(* Messages *)

\* A payload as it arrives: a JSON object (with its "actuator" and "value"
\* members, "" and None when absent), another JSON value, or no JSON at all.
ObjectPayload(a, v) == [form |-> "object", actuator |-> a, value |-> v]
ScalarPayload == [form |-> "scalar", actuator |-> "", value |-> None]
GarbagePayload == [form |-> "garbage", actuator |-> "", value |-> None]

\* What the sensor side publishes: one topic per kind, payload {value: v},
\* with or without an "actuator" member naming the kind; also without value.
SensorMsgs ==
    UNION {{[topic |-> SensorTopic(k), payload |-> ObjectPayload(a, v)] :
                a \in {"", k}, v \in Values[k] \cup {None}} : k \in Kinds}
    \cup {[topic |-> SensorTopic("humidity"), payload |-> ObjectPayload("Humidity", v)] :
            v \in Values["humidity"]}

\* The backend's own commands, {actuator, action, timestamp}, coming back.
CommandMsgs ==
    {[topic |-> CommandTopic(a), payload |-> ObjectPayload(a, None)] : a \in {"fan", "light"}}

MalformedMsgs ==
    {[topic |-> t, payload |-> p] :
        t \in {SensorTopic("temperature"), SensorTopic("light"), AlertTopic},
        p \in {ScalarPayload, GarbagePayload}}

Messages == SensorMsgs \cup CommandMsgs \cup MalformedMsgs

NoMsg == [topic |-> << >>, payload |-> [form |-> "none", actuator |-> "", value |-> None]]

\* json.loads: raises on text that is no JSON; a dict only for a JSON object.
JsonLoads(p) ==
    [ok |-> p.form # "garbage",
     data |-> [isdict |-> p.form = "object", actuator |-> p.actuator, value |-> p.value]]

\* The dict built when json.loads raised: {"raw": ...} has neither member.
RawData == [isdict |-> TRUE, actuator |-> "", value |-> None]

\* `word in topic` for the topics above: no segment but the word itself
\* contains one of "temperature", "humidity", "light".
InTopic(word, topic) == \E i \in 1..Len(topic) : topic[i] = word

\* str.lower() on the member values that occur.
Lower(s) == IF s = "Humidity" THEN "humidity" ELSE s

\* `word in s` for the member values that occur ("", the kinds, "fan").
InStr(word, s) == s = word

----------------------------------------------------------------------------
(* Rule evaluation *)

ActuatorEvent(a, action) == [actuator_type |-> a, action |-> action, auto_triggered |-> TRUE]
Alert(type, v) == [alert_type |-> type, value |-> v]

\* Variation: the command is never handed to the client.
send_command_to_esp32_Offline(actuator, action, conn) == << >>

\* The publish calls send_command_to_esp32 makes: one on the actuator's
\* command topic when the client is connected, none otherwise.
send_command_to_esp32(actuator, action, conn) ==
    IF conn
    THEN << [topic |-> CommandTopic(actuator), actuator |-> actuator,
             action |-> action, qos |-> 1] >>
    ELSE << >>

\* Variation: the completeness test passes as soon as one reading is there.
DataComplete_AnyPresent(sd) ==
    ~(sd.temperature = None /\ sd.humidity = None /\ sd.light_level = None)

\* "Solo procesar si tenemos datos completos".
DataComplete(sd) ==
    ~(sd.temperature = None \/ sd.humidity = None \/ sd.light_level = None)

\* Variation: the fan command, event and alert are repeated while the fan is on.
FanRule_NoTransitionTest(temp, acts, conn) ==
    IF temp > THRESHOLDS.temperature_high
    THEN [fan |-> TRUE,
          sent |-> send_command_to_esp32("fan", "on", conn),
          events |-> << ActuatorEvent("fan", "on") >>,
          alerts |-> IF temp > THRESHOLDS.temperature_critical
                     THEN << Alert("temperature_critical", temp) >>
                     ELSE << >>]
    ELSE [fan |-> FALSE,
          sent |-> IF acts.fan THEN send_command_to_esp32("fan", "off", conn) ELSE << >>,
          events |-> IF acts.fan THEN << ActuatorEvent("fan", "off") >> ELSE << >>,
          alerts |-> << >>]

\* Variation: the critical alert is raised outside the switching branch.
FanRule_AlertWhileOn(temp, acts, conn) ==
    [fan |-> temp > THRESHOLDS.temperature_high,
     sent |-> IF (temp > THRESHOLDS.temperature_high) # acts.fan
              THEN send_command_to_esp32(
                     "fan", IF acts.fan THEN "off" ELSE "on", conn)
              ELSE << >>,
     events |-> IF (temp > THRESHOLDS.temperature_high) # acts.fan
                THEN << ActuatorEvent("fan", IF acts.fan THEN "off" ELSE "on") >>
                ELSE << >>,
     alerts |-> IF temp > THRESHOLDS.temperature_critical
                THEN << Alert("temperature_critical", temp) >>
                ELSE << >>]

\* Variation: >= in place of > in the fan rule.
FanRule_AtThreshold(temp, acts, conn) ==
    [fan |-> temp >= THRESHOLDS.temperature_high,
     sent |-> IF (temp >= THRESHOLDS.temperature_high) # acts.fan
              THEN send_command_to_esp32(
                     "fan", IF acts.fan THEN "off" ELSE "on", conn)
              ELSE << >>,
     events |-> IF (temp >= THRESHOLDS.temperature_high) # acts.fan
                THEN << ActuatorEvent("fan", IF acts.fan THEN "off" ELSE "on") >>
                ELSE << >>,
     alerts |-> IF temp >= THRESHOLDS.temperature_high /\ ~acts.fan
                   /\ temp > THRESHOLDS.temperature_critical
                THEN << Alert("temperature_critical", temp) >>
                ELSE << >>]

\* REGLA 1: the fan follows temp > temperature_high; event and critical alert
\* only when it is switched.
FanRule(temp, acts, conn) ==
    IF temp > THRESHOLDS.temperature_high
    THEN IF ~acts.fan
         THEN [fan |-> TRUE,
               sent |-> send_command_to_esp32("fan", "on", conn),
               events |-> << ActuatorEvent("fan", "on") >>,
               alerts |-> IF temp > THRESHOLDS.temperature_critical
                          THEN << Alert("temperature_critical", temp) >>
                          ELSE << >>]
         ELSE [fan |-> acts.fan, sent |-> << >>, events |-> << >>, alerts |-> << >>]
    ELSE IF acts.fan
         THEN [fan |-> FALSE,
               sent |-> send_command_to_esp32("fan", "off", conn),
               events |-> << ActuatorEvent("fan", "off") >>,
               alerts |-> << >>]
         ELSE [fan |-> acts.fan, sent |-> << >>, events |-> << >>, alerts |-> << >>]

\* Variation: >= in place of > in the humidity rule.
HumidityRule_AtThreshold(humidity) ==
    IF humidity >= THRESHOLDS.humidity_high
    THEN << Alert("humidity_high", humidity) >>
    ELSE << >>

\* REGLA 2: an alert whenever humidity > humidity_high.
HumidityRule(humidity) ==
    IF humidity > THRESHOLDS.humidity_high
    THEN << Alert("humidity_high", humidity) >>
    ELSE << >>

\* Variation: the light command is repeated while the light is on.
LightRule_NoTransitionTest(light, acts, conn) ==
    IF light < THRESHOLDS.light_threshold
    THEN [light |-> TRUE, sent |-> send_command_to_esp32("light", "on", conn)]
    ELSE IF acts.light
         THEN [light |-> FALSE, sent |-> send_command_to_esp32("light", "off", conn)]
         ELSE [light |-> acts.light, sent |-> << >>]

\* Variation: <= in place of < in the light rule.
LightRule_AtThreshold(light, acts, conn) ==
    IF light <= THRESHOLDS.light_threshold
    THEN IF ~acts.light
         THEN [light |-> TRUE, sent |-> send_command_to_esp32("light", "on", conn)]
         ELSE [light |-> acts.light, sent |-> << >>]
    ELSE IF acts.light
         THEN [light |-> FALSE, sent |-> send_command_to_esp32("light", "off", conn)]
         ELSE [light |-> acts.light, sent |-> << >>]

\* REGLA 3: the light follows light < light_threshold; a command when it is
\* switched, no event and no alert.
LightRule(light, acts, conn) ==
    IF light < THRESHOLDS.light_threshold
    THEN IF ~acts.light
         THEN [light |-> TRUE, sent |-> send_command_to_esp32("light", "on", conn)]
         ELSE [light |-> acts.light, sent |-> << >>]
    ELSE IF acts.light
         THEN [light |-> FALSE, sent |-> send_command_to_esp32("light", "off", conn)]
         ELSE [light |-> acts.light, sent |-> << >>]

\* What handling a message leaves behind when nothing was done.
Nothing(sd, acts) ==
    [sensor_data |-> sd, actuator_states |-> acts, sent |-> << >>,
     events |-> << >>, alerts |-> << >>, evaluated |-> FALSE]

\* process_business_logic on store sd: the three rules in order.
process_business_logic(sd, acts, conn) ==
    IF ~DataComplete(sd)
    THEN Nothing(sd, acts)
    ELSE LET f == FanRule(sd.temperature, acts, conn)
             h == HumidityRule(sd.humidity)
             l == LightRule(sd.light_level, acts, conn)
         IN  [sensor_data |-> sd,
              actuator_states |-> [fan |-> f.fan, light |-> l.light],
              sent |-> f.sent \o l.sent,
              events |-> f.events,
              alerts |-> f.alerts \o h,
              evaluated |-> TRUE]

----------------------------------------------------------------------------
(* Message handling *)

\* The kind the library-backed handler files a message under: the first of
\* the three words found in the topic.
TopicKind(topic) ==
    IF InTopic("temperature", topic) THEN "temperature"
    ELSE IF InTopic("humidity", topic) THEN "humidity"
    ELSE IF InTopic("light", topic) THEN "light"
    ELSE "none"

\* The kind the MicroPython handler files a message under: the first of the
\* three words found in str(actuator).lower().
ActuatorKind(actuator) ==
    IF InStr("temperature", Lower(actuator)) THEN "temperature"
    ELSE IF InStr("humidity", Lower(actuator)) THEN "humidity"
    ELSE IF InStr("light", Lower(actuator)) THEN "light"
    ELSE "none"

\* handle_sensor_data of src/backend_main.py on {"topic": .., "data": ..}:
\* the slot of the topic's kind takes data.get("value") whatever it is (None
\* when the member is missing); data.get raises when data is no dict, and the
\* except clause ends the handling there.
handle_sensor_data_backend(message, sd, acts, conn) ==
    LET k == TopicKind(message.topic) IN
    IF k # "none" /\ ~message.data.isdict
    THEN Nothing(sd, acts)
    ELSE LET sd1 == IF k # "none" THEN [sd EXCEPT ![Key(k)] = message.data.value] ELSE sd
             sd2 == [sd1 EXCEPT !.timestamp = Stamp]
         IN  process_business_logic(sd2, acts, conn)

\* Variation: a slot is written only while it is empty.
handle_sensor_data_main_FirstWins(message, sd, acts, conn) ==
    IF ~message.isdict
    THEN Nothing(sd, acts)
    ELSE LET k == ActuatorKind(message.actuator)
             sd1 == IF k # "none" /\ message.value # None /\ sd[Key(k)] = None
                    THEN [sd EXCEPT ![Key(k)] = message.value]
                    ELSE sd
             sd2 == [sd1 EXCEPT !.timestamp = Stamp]
         IN  process_business_logic(sd2, acts, conn)

\* handle_sensor_data of src/main.py on the parsed payload: message.get raises
\* when the payload is no dict; the slot of the kind named by the "actuator"
\* member takes the value unless it is None.
handle_sensor_data_main(message, sd, acts, conn) ==
    IF ~message.isdict
    THEN Nothing(sd, acts)
    ELSE LET k == ActuatorKind(message.actuator)
             sd1 == IF k # "none" /\ message.value # None
                    THEN [sd EXCEPT ![Key(k)] = message.value]
                    ELSE sd
             sd2 == [sd1 EXCEPT !.timestamp = Stamp]
         IN  process_business_logic(sd2, acts, conn)

\* custom_on_message: the payload parsed, {"raw": payload} when it is no JSON,
\* handed on together with the topic.
custom_on_message(msg, sd, acts, conn) ==
    LET j == JsonLoads(msg.payload)
        data == IF j.ok THEN j.data ELSE RawData
    IN  handle_sensor_data_backend([topic |-> msg.topic, data |-> data], sd, acts, conn)

\* MQTTClient._on_message of src/mqtt_client.py: the payload parsed,
\* {"raw": .., "topic": ..} when it is no JSON, handed on without the topic.
mqtt_on_message(msg, sd, acts, conn) ==
    LET j == JsonLoads(msg.payload)
        data == IF j.ok THEN j.data ELSE RawData
    IN  handle_sensor_data_main(data, sd, acts, conn)

\* How a call made for a fan transition can come out: the command publish or
\* save_actuator_event returns a failure value, or raises.
CallFailures == {"publish fails", "publish raises", "save fails", "save raises"}

\* What a handling that would leave r behind leaves when a call made for its
\* fan transition fails. A failure value is looked at by neither variant.
\* main.py catches an exception where it is raised (send_command_to_esp32,
\* the try around each save) and goes on. backend_main.py has no try in
\* process_business_logic or send_command_to_esp32: the exception ends the
\* evaluation where it is raised, before fan is set when the publish raised,
\* before the critical alert when the save raised, and before the humidity
\* and light rules either way; handle_sensor_data catches it.
downstream_failure(v, acts, conn, r, failure) ==
    LET f == FanRule(r.sensor_data.temperature, acts, conn) IN
    IF v = "main" \/ failure \in {"none", "publish fails", "save fails"}
    THEN r
    ELSE IF failure = "publish raises"
         THEN [r EXCEPT !.actuator_states = acts, !.sent = f.sent,
                        !.events = << >>, !.alerts = << >>]
         ELSE [r EXCEPT !.actuator_states = [acts EXCEPT !.fan = f.fan], !.sent = f.sent,
                        !.events = f.events, !.alerts = << >>]

----------------------------------------------------------------------------
(* Monitors: what the properties below observe of a run *)

Min(a, b) == IF a < b THEN a ELSE b
Cap(s) == IF Len(s) > RunCap THEN SubSeq(s, 1, RunCap) ELSE s

\* The "on"/"off" of the entries of seq that concern actuator a.
ActionsOf(a, seq) ==
    LET sel == SelectSeq(seq, LAMBDA c : c.actuator = a)
    IN  [i \in 1..Len(sel) |-> sel[i].action]
EventActionsOf(a, seq) ==
    LET sel == SelectSeq(seq, LAMBDA e : e.actuator_type = a)
    IN  [i \in 1..Len(sel) |-> sel[i].action]
AlertsOf(type, seq) == SelectSeq(seq, LAMBDA al : al.alert_type = type)

\* The kind of sensor reading a message is for the handler of variant v, "none"
\* when it is no reading: for backend_main a JSON object with a value on the
\* sensor topic of the kind, for main a JSON object with a value whose
\* "actuator" member names the kind.
ReadingKind(v, msg) ==
    IF msg.payload.form # "object" \/ msg.payload.value = None THEN "none"
    ELSE IF v = "backend_main"
         THEN IF \E k \in Kinds : msg.topic = SensorTopic(k) THEN msg.topic[3] ELSE "none"
         ELSE IF Lower(msg.payload.actuator) \in Kinds
              THEN Lower(msg.payload.actuator) ELSE "none"

\* The scenario of the spec, as messages every variant files under their kind.
Scenario ==
    << <<"temperature", 30>>, <<"humidity", 50>>, <<"light", 500>>,
       <<"temperature", 36>>, <<"temperature", 20>>, <<"light", 100>> >>
ScenarioMsg(i) ==
    [topic |-> SensorTopic(Scenario[i][1]),
     payload |-> ObjectPayload(Scenario[i][1], Scenario[i][2])]
OffScript == [step |-> -1, sent |-> << >>, events |-> << >>, alerts |-> << >>]

NextHotRun(r) ==
    IF ~r.evaluated THEN hot_run
    ELSE IF r.sensor_data.temperature > THRESHOLDS.temperature_high
         THEN [len |-> Min(hot_run.len + 1, RunCap),
               sent |-> Cap(hot_run.sent \o ActionsOf("fan", r.sent)),
               events |-> Cap(hot_run.events \o EventActionsOf("fan", r.events))]
         ELSE [len |-> 0, sent |-> << >>, events |-> << >>]

NextHumRun(r) ==
    IF ~r.evaluated THEN hum_run
    ELSE IF r.sensor_data.humidity > THRESHOLDS.humidity_high
         THEN [len |-> Min(hum_run.len + 1, RunCap),
               alerts |-> Min(hum_run.alerts + Len(AlertsOf("humidity_high", r.alerts)),
                              RunCap)]
         ELSE [len |-> 0, alerts |-> 0]

\* The last two elements of a sequence.
LastTwo(s) == IF Len(s) > 2 THEN SubSeq(s, Len(s) - 1, Len(s)) ELSE s

NextPublished(r) ==
    [a \in {"fan", "light"} |-> LastTwo(published[a] \o ActionsOf(a, r.sent))]

NextScn(msg, r) ==
    IF scn.step >= 0 /\ scn.step < Len(Scenario) /\ msg = ScenarioMsg(scn.step + 1)
    THEN [step |-> scn.step + 1, sent |-> scn.sent \o r.sent,
          events |-> scn.events \o r.events, alerts |-> scn.alerts \o r.alerts]
    ELSE OffScript

----------------------------------------------------------------------------
(* Transport session *)

\* How many underlying clients (connections) are told apart.
MaxClients == 2

\* self.client of the MicroPython MQTTClient before the first connect().
NoClient == 0

\* The filter main() subscribes to.
SensorFilter == <<"smarthome", "sensors", "#">>

\* config.MQTT_TOPICS, the table the library-backed client looks its topics
\* up in: one topic per sensor kind, command and status topic per actuator,
\* the alert topic and the system status topic.
MQTT_TOPICS ==
    [temperature |-> SensorTopic("temperature"),
     humidity |-> SensorTopic("humidity"),
     light |-> SensorTopic("light"),
     fan_command |-> CommandTopic("fan"),
     light_command |-> CommandTopic("light"),
     fan_status |-> <<"smarthome", "status", "fan">>,
     light_status |-> <<"smarthome", "status", "light">>,
     alerts |-> AlertTopic,
     system_status |-> <<"smarthome", "status", "system">>]

\* What a publish operation reports: its return value, how many times it
\* called publish on the underlying client, whether an exception left it.
Reported(returned, passed_on) ==
    [returned |-> returned, passed_on |-> passed_on, raised |-> FALSE]

\* An operation that calls the underlying publish `calls` times in a row;
\* fail = 0 when no call raises, otherwise the number of the call that does
\* (the exception is caught and False returned).
Attempt(calls, fail) ==
    IF fail \in 1..calls THEN Reported(FALSE, fail) ELSE Reported(TRUE, calls)

\* MQTTClient.publish of the MicroPython client.
publish(conn, fail) ==
    IF ~conn THEN Reported(FALSE, 0) ELSE Attempt(1, fail)

\* The publish operations of the library-backed client.
publish_sensor_data(conn, fail) ==
    IF ~conn THEN Reported(FALSE, 0) ELSE Attempt(3, fail)

publish_actuator_status(conn, actuator_type, fail) ==
    IF ~conn THEN Reported(FALSE, 0)
    ELSE IF actuator_type \notin {"fan", "light"}   \* no <type>_status topic
         THEN Reported(FALSE, 0)
         ELSE Attempt(1, fail)

\* Variation: publish_alert without the test of the connected flag.
publish_alert_Unguarded(conn, fail) == Attempt(1, fail)

publish_alert(conn, fail) ==
    IF ~conn THEN Reported(FALSE, 0) ELSE Attempt(1, fail)

publish_system_status(conn, fail) ==
    IF ~conn THEN Reported(FALSE, 0) ELSE Attempt(1, fail)

\* The publish operations a variant's client has.
PublishOps(v) ==
    IF v = "main" THEN {"publish"}
    ELSE {"publish_sensor_data", "publish_actuator_status", "publish_alert",
          "publish_system_status"}

NoCall == [op |-> "none", flag |-> FALSE, returned |-> FALSE, passed_on |-> 0,
           raised |-> FALSE]

\* The filters subscribed on the connection of client c.
FiltersOf(c, sb) == {f \in {sb1[2] : sb1 \in sb} : <<c, f>> \in sb}

\* The client object a new UMQTTClient(...) becomes: the first number no open
\* connection goes by.
NewClient(open) ==
    CHOOSE n \in 1..(MaxClients + 1) : n \notin open /\ \A m \in 1..(n - 1) : m \in open

----------------------------------------------------------------------------
(* The loop's clock and timers *)

\* "Guardar en BD cada 30 segundos", "Enviar a ThingSpeak cada 20 segundos".
DbSaveEvery == 30
ThingSpeakEvery == 20

\* The clock when run() is called: 0 where time.time() counts from start-up,
\* 30 standing for the clocks that count from an epoch (both timers are due
\* in the first iteration).
StartTimes == {0, 30}

\* The clock value the loop is followed up to.
MaxTime == 56

\* The clock value the loop is followed up to where the lateness of the
\* timers is watched: room for five firings of the reporting timer.
DriftTime == 106

\* time.sleep(1): the tick of the loop.
LoopTick == 1

\* The longest the handling of a message or a call of the persistence gateway
\* takes.
MaxWork == 1

\* Variation: a timer is due only while the connected flag is set.
Due_WhileConnected(current_time, last, every) ==
    connected /\ current_time - last >= every

\* `if current_time - self.last_... >= interval`.
Due(current_time, last, every) == current_time - last >= every

\* all([...]) of save_to_database: every reading is truthy.
AllTruthy(sd) ==
    \A k \in Kinds : sd[Key(k)] # None /\ sd[Key(k)] # 0

\* save_to_database of backend_main.py: the gateway is called when every
\* reading is truthy, and what it raises is not caught.
save_to_database_backend(sd, outcome) ==
    IF AllTruthy(sd)
    THEN [call |-> outcome, escapes |-> outcome = "raise"]
    ELSE [call |-> "skipped", escapes |-> FALSE]

\* save_to_database of main.py: the same inside try/except.
save_to_database_main(sd, outcome) ==
    IF AllTruthy(sd)
    THEN [call |-> outcome, escapes |-> FALSE]
    ELSE [call |-> "skipped", escapes |-> FALSE]

\* The messages delivered while the loop is followed: one reading per kind.
RunFeed == {ScenarioMsg(1), ScenarioMsg(2), ScenarioMsg(3)}

----------------------------------------------------------------------------
(* The callback chain *)

\* How many handlings that raised an error are counted.
ErrCap == 2

\* Variation: no except clause around the handler.
on_message_errors_Uncaught(v, msg) ==
    IF msg.payload.form = "garbage"
    THEN "caught"
    ELSE IF msg.payload.form = "scalar" /\ (v = "main" \/ TopicKind(msg.topic) # "none")
         THEN "escaped"
         ELSE "none"

\* What becomes of an error raised while msg goes through the callback chain
\* of variant v: json.loads raises on text that is no JSON, inside the inner
\* try of the callback; .get raises on parsed data that is no dict, inside
\* the try of handle_sensor_data (backend_main.py reaches data.get only for a
\* topic of a sensor kind).
on_message_errors(v, msg) ==
    IF msg.payload.form = "garbage"
    THEN "caught"
    ELSE IF msg.payload.form = "scalar" /\ (v = "main" \/ TopicKind(msg.topic) # "none")
         THEN "caught"
         ELSE "none"

\* The thread that runs the message callback, and handle_sensor_data with it:
\* the network thread started by loop_start() in backend_main.py, the thread
\* of run(), which calls check_msg(), in main.py.
callback_thread(v) == IF v = "backend_main" THEN "network" ELSE "loop"

----------------------------------------------------------------------------
(* The state machine *)

InitBackend ==
    /\ variant \in {"backend_main", "main"}
    /\ connected = FALSE
    /\ sensor_data = [temperature |-> None, humidity |-> None,
                      light_level |-> None, timestamp |-> None]
    /\ actuator_states = [fan |-> FALSE, light |-> FALSE]
    /\ sent = << >> /\ saved_events = << >> /\ saved_alerts = << >>
    /\ evaluated = FALSE
    /\ last_msg = NoMsg
    /\ acts_before = actuator_states
    /\ last_reading = [k \in Kinds |-> None]
    /\ only_readings = TRUE
    /\ hot_run = [len |-> 0, sent |-> << >>, events |-> << >>]
    /\ hum_run = [len |-> 0, alerts |-> 0]
    /\ scn = [step |-> 0, sent |-> << >>, events |-> << >>, alerts |-> << >>]
    /\ published = [a \in {"fan", "light"} |-> << >>]
    /\ resumed = 0
    /\ fault = "none"
    /\ errs = 0
    /\ writer = "none"
    /\ failed = "none"
    /\ pending = 0

\* The clients as constructed: mqtt.Client() made by the library-backed
\* MQTTClient, self.client = None in the MicroPython one.
InitSession ==
    /\ client = IF variant = "backend_main" THEN 1 ELSE NoClient
    /\ open_conns = {}
    /\ subs = {}
    /\ loop_thread = FALSE
    /\ connack_pending = FALSE
    /\ api = NoCall
    /\ wanted = {}
    /\ retried = FALSE

\* The loop's timers as constructed; nothing of main() has run.
InitLife ==
    /\ pc = "main"
    /\ running = TRUE
    /\ now \in StartTimes
    /\ last_db_save = 0
    /\ last_thingspeak = 0
    /\ db_call = "none"
    /\ ts_call = "none"
    /\ report_at = None
    /\ report_gap = None
    /\ startup = "none"
    /\ exit_cause = "none"
    /\ released = FALSE
    /\ cleaned = [times |-> 0, ended |-> "none"]
    /\ degraded = FALSE
    /\ drift = [db |-> None, ts |-> None]
    /\ db_args = << >>

\* The backend's handlers and the session's operations and callbacks, in any
\* order; main() and run() stand still.
InitHandlers ==
    /\ InitBackend
    /\ InitSession
    /\ InitLife
    /\ now = 0

Init ==
    /\ InitHandlers
    /\ watch = "rules"
    /\ feed = Messages

\* The ways the calls of a handling that would leave r behind can fail: those
\* made for a fan transition, the publish only when the client is connected.
FailuresOf(r) ==
    IF watch = "failures" /\ r.evaluated /\ r.actuator_states.fan # actuator_states.fan
    THEN {"none"} \cup {f \in CallFailures :
                           connected \/ f \notin {"publish fails", "publish raises"}}
    ELSE {"none"}

\* What a message whose handling comes to r0 when every call succeeds leaves
\* in the backend.
HandledBy(msg, r0) ==
  \E failure \in FailuresOf(r0) :
  LET r == downstream_failure(variant, actuator_states, connected, r0, failure) IN
    /\ failed' = failure
    /\ watch = "drain" => pending > 0
    /\ pending' = IF watch = "drain" THEN pending - 1 ELSE pending
    /\ sensor_data' = r.sensor_data
    /\ actuator_states' = r.actuator_states
    /\ sent' = r.sent
    /\ saved_events' = r.events
    /\ saved_alerts' = r.alerts
    /\ evaluated' = r.evaluated
    /\ last_msg' = msg
    /\ acts_before' = actuator_states
    /\ IF watch = "rules"
       THEN /\ LET k == ReadingKind(variant, msg) IN
                 /\ only_readings' = (only_readings /\ k # "none")
                 /\ last_reading' = IF only_readings /\ k # "none"
                                    THEN [last_reading EXCEPT ![k] = msg.payload.value]
                                    ELSE [j \in Kinds |-> None]
            /\ hot_run' = NextHotRun(r)
            /\ hum_run' = NextHumRun(r)
            /\ scn' = NextScn(msg, r)
       ELSE UNCHANGED <<last_reading, only_readings, hot_run, hum_run, scn>>
    /\ published' = IF watch = "commands" THEN NextPublished(r) ELSE published
    /\ resumed' = IF watch = "commands" /\ r.sent # << >> /\ resumed \in {0, 2}
                  THEN resumed + 1 ELSE resumed
    /\ fault' = IF watch = "errors" THEN on_message_errors(variant, msg) ELSE fault
    /\ errs' = IF watch = "errors" /\ on_message_errors(variant, msg) # "none"
               THEN Min(errs + 1, ErrCap) ELSE errs
    /\ writer' = IF watch = "run"
                    /\ (r.sensor_data # sensor_data \/ r.actuator_states # actuator_states)
                 THEN callback_thread(variant) ELSE writer

\* The state after a message was handled with outcome r.
Handled(msg, r) ==
    /\ HandledBy(msg, r)
    /\ IF on_message_errors(variant, msg) = "escaped" /\ variant = "backend_main"
       THEN \* the exception ends the thread that ran the callback
            loop_thread' = FALSE /\ UNCHANGED <<client, open_conns, subs, connack_pending>>
       ELSE UNCHANGED tvars
    /\ UNCHANGED <<variant, connected, sess, mode>>

\* backend_main: the network thread dispatches a message of the established
\* session to the callback installed by main().
CustomOnMessage ==
    /\ variant = "backend_main"
    /\ loop_thread /\ client \in open_conns /\ ~connack_pending
    /\ \E msg \in feed :
         Handled(msg, custom_on_message(msg, sensor_data, actuator_states, connected))
    /\ UNCHANGED <<life, startup>>

\* main: check_msg polls the client when connected, which dispatches a pending
\* message to _on_message.
CheckMsg ==
    /\ variant = "main"
    /\ connected /\ client # NoClient
    /\ client \in open_conns
    /\ \E msg \in feed :
         Handled(msg, mqtt_on_message(msg, sensor_data, actuator_states, connected))
    /\ UNCHANGED <<life, startup>>

\* The session goes down: noted when a command had been published before;
\* what was waiting on the connection is gone with it.
WentDown ==
    /\ resumed' = IF resumed = 1 THEN 2 ELSE resumed
    /\ pending' = 0
    /\ UNCHANGED <<fault, errs, writer, failed>>

\* What the session monitor remembers when the session goes down: the filters
\* that were subscribed on it.
Remember(filters) == IF watch = "session" THEN filters ELSE wanted

\* _on_connect, the broker's answer to the connection request: rc = 0 sets the
\* flag and subscribes the two command topics; any other rc clears the flag,
\* and the broker closes the connection it refused.
on_connect(rc) ==
    /\ connack_pending' = FALSE
    /\ IF rc = 0
       THEN /\ connected' = TRUE
            /\ subs' = subs \cup {<<client, MQTT_TOPICS.fan_command>>,
                                  <<client, MQTT_TOPICS.light_command>>}
            /\ UNCHANGED open_conns
       ELSE /\ connected' = FALSE
            /\ open_conns' = {}
            /\ subs' = {}
    /\ UNCHANGED <<client, loop_thread>>

OnConnect ==
    /\ variant = "backend_main"
    /\ loop_thread /\ connack_pending
    /\ \E rc \in {0, 5} :
         /\ on_connect(rc)
         /\ startup' = IF startup = "awaited"
                       THEN (IF rc = 0 THEN "ok" ELSE "refused")
                       ELSE startup
    /\ UNCHANGED <<variant, sensor_data, actuator_states, outs, hist, cmds, sess, mode, life>>

\* _on_disconnect: the established session ended; the broker forgets its
\* subscriptions.
OnDisconnect ==
    /\ variant = "backend_main"
    /\ loop_thread /\ client \in open_conns /\ ~connack_pending
    /\ connected' = FALSE
    /\ open_conns' = {}
    /\ subs' = {}
    /\ wanted' = Remember(FiltersOf(client, subs))
    /\ WentDown
    /\ UNCHANGED <<client, loop_thread, connack_pending, api, retried>>
    /\ UNCHANGED <<variant, sensor_data, actuator_states, outs, hist, mode, life, startup>>

\* The network thread started by loop_start() opens the connection again.
Reconnect ==
    /\ variant = "backend_main"
    /\ loop_thread /\ open_conns = {}
    /\ open_conns' = {client}
    /\ connack_pending' = TRUE
    /\ retried' = (watch = "session" \/ retried)
    /\ UNCHANGED <<connected, client, subs, loop_thread, api, wanted>>
    /\ UNCHANGED <<variant, sensor_data, actuator_states, outs, hist, cmds, mode, life, startup>>

\* MQTTClient.connect of src/mqtt_client.py: a new UMQTTClient replaces
\* self.client, whatever became of the old one, and is connected.
micro_connect(outcome) ==
    IF outcome = "ImportError"
    THEN UNCHANGED <<connected, client, open_conns>>
    ELSE LET n == NewClient(open_conns) IN
           /\ n <= MaxClients
           /\ client' = n
           /\ IF outcome = "connected"
              THEN open_conns' = open_conns \cup {n} /\ connected' = TRUE
              ELSE open_conns' = open_conns /\ connected' = FALSE

\* MQTTClient.connect of src/src/mqtt_client.py: client.connect() and
\* loop_start(); the broker's answer comes later, through _on_connect.
paho_connect(outcome) ==
    IF outcome = "raised"
    THEN UNCHANGED <<open_conns, subs, loop_thread, connack_pending>>
    ELSE /\ open_conns' = {client}
         /\ subs' = {}
         /\ loop_thread' = TRUE
         /\ connack_pending' = TRUE

\* connect().
MqttConnect ==
    /\ IF variant = "main"
       THEN /\ \E outcome \in {"connected", "ImportError", "OSError", "MQTTException"} :
                 micro_connect(outcome)
            /\ UNCHANGED <<subs, loop_thread, connack_pending>>
       ELSE /\ \E outcome \in {"started", "raised"} : paho_connect(outcome)
            /\ UNCHANGED <<connected, client>>
    /\ UNCHANGED <<variant, sensor_data, actuator_states, outs, hist, cmds, sess, mode, life, startup>>

\* disconnect(): the MicroPython client disconnects when it has a client and
\* the flag is set, and clears the flag; the library-backed one stops the
\* network thread and disconnects, and leaves the flag alone.
micro_disconnect ==
    IF client # NoClient /\ connected
    THEN /\ open_conns' = open_conns \ {client}
         /\ subs' = {sb \in subs : sb[1] # client}
         /\ connected' = FALSE
         /\ UNCHANGED <<client, loop_thread, connack_pending>>
    ELSE UNCHANGED <<connected, tvars>>

paho_disconnect ==
    /\ loop_thread' = FALSE
    /\ open_conns' = {}
    /\ subs' = {}
    /\ connack_pending' = FALSE
    /\ UNCHANGED <<connected, client>>

MqttDisconnect ==
    /\ IF variant = "main"
       THEN (client # NoClient /\ connected) /\ micro_disconnect
       ELSE loop_thread /\ paho_disconnect
    /\ wanted' = Remember(FiltersOf(client, subs))
    /\ WentDown
    /\ UNCHANGED <<api, retried>>
    /\ UNCHANGED <<variant, sensor_data, actuator_states, outs, hist, mode, life, startup>>

\* The session is down: the client that is dispatched from or polled has no
\* established connection.
Down ==
    IF variant = "backend_main"
    THEN ~(client \in open_conns /\ ~connack_pending)
    ELSE client \notin open_conns

\* main.py: the connection of the client that is polled is lost; nothing in
\* the MicroPython MQTTClient is told, and the errors check_msg() and
\* publish() meet from then on are caught without touching the flag.
ConnLost ==
    /\ variant = "main"
    /\ client \in open_conns
    /\ open_conns' = open_conns \ {client}
    /\ subs' = {sb \in subs : sb[1] # client}
    /\ wanted' = Remember(FiltersOf(client, subs))
    /\ WentDown
    /\ UNCHANGED <<connected, client, loop_thread, connack_pending, api, retried>>
    /\ UNCHANGED <<variant, sensor_data, actuator_states, outs, hist, mode, life, startup>>

Next ==
    \/ CustomOnMessage
    \/ CheckMsg
    \/ OnConnect
    \/ OnDisconnect
    \/ Reconnect
    \/ MqttConnect
    \/ MqttDisconnect

Spec == Init /\ [][Next]_vars

\* The same program fed with sensor readings and watched for the commands it
\* publishes.
\* The sensor messages either variant files under their kind, with a value
\* or without.
Readings == {msg \in SensorMsgs : msg.payload.actuator \in Kinds}

InitCmd ==
    /\ InitHandlers
    /\ watch = "commands"
    /\ feed = Readings

SpecCmd == InitCmd /\ [][Next]_vars

----------------------------------------------------------------------------
(* The transport session on its own: its operations called in any order *)

\* subscribe(topic) of the MicroPython client, which does nothing when the
\* flag is clear, and client.subscribe(...) on the underlying client, as
\* main() of either variant calls it: without a connection nothing is
\* subscribed.
Subscribe ==
    /\ \E direct \in IF variant = "main" THEN BOOLEAN ELSE {TRUE} :
         /\ direct => client # NoClient
         /\ subs' = IF client \in open_conns /\ ~connack_pending /\ (direct \/ connected)
                    THEN subs \cup {<<client, SensorFilter>>}
                    ELSE subs
    /\ subs' # subs
    /\ UNCHANGED <<connected, client, open_conns, loop_thread, connack_pending>>
    /\ UNCHANGED <<variant, sensor_data, actuator_states, outs, hist, cmds, sess, mode, life, startup>>

\* One of the publish operations is called.
Publish ==
    /\ \E op \in PublishOps(variant), fail \in 0..3, actuator_type \in {"fan", "door"} :
         \* on a lost connection the underlying publish raises
         /\ (variant = "main" /\ connected /\ client \notin open_conns) => fail # 0
         /\ LET res == CASE op = "publish" -> publish(connected, fail)
                      [] op = "publish_sensor_data" -> publish_sensor_data(connected, fail)
                      [] op = "publish_actuator_status" ->
                           publish_actuator_status(connected, actuator_type, fail)
                      [] op = "publish_alert" -> publish_alert(connected, fail)
                      [] OTHER -> publish_system_status(connected, fail)
            IN  api' = [op |-> op, flag |-> connected, returned |-> res.returned,
                        passed_on |-> res.passed_on, raised |-> res.raised]
    /\ UNCHANGED <<wanted, retried, tvars>>
    /\ UNCHANGED <<variant, connected, sensor_data, actuator_states, outs, hist, cmds, mode, life, startup>>

InitSessionOnly ==
    /\ InitHandlers
    /\ watch = "session"
    /\ feed = {}

NextSession ==
    \/ MqttConnect
    \/ MqttDisconnect
    \/ OnConnect
    \/ OnDisconnect
    \/ Reconnect
    \/ Subscribe
    \/ Publish
    \/ ConnLost

SpecSession == InitSessionOnly /\ [][NextSession]_vars

----------------------------------------------------------------------------
(* main() and run(): start-up, the loop, cleanup *)

handler_vars == <<sensor_data, actuator_states, outs, hist, cmds>>

\* main() up to the call of run(). main.py: connect() and, when it succeeded,
\* client.subscribe(b"smarthome/sensors/#"), whose failure is passed over.
\* backend_main.py: the callback is installed and client.subscribe(...) is
\* called on the client that has no connection yet, which subscribes nothing.
Main ==
    /\ pc = "main"
    /\ pc' = "run"
    /\ IF variant = "main"
       THEN \E outcome \in {"connected", "OSError"}, subscribed \in BOOLEAN :
              /\ micro_connect(outcome)
              /\ subs' = IF outcome = "connected" /\ subscribed
                         THEN subs \cup {<<client', SensorFilter>>}
                         ELSE subs
              /\ UNCHANGED <<loop_thread, connack_pending>>
       ELSE UNCHANGED <<connected, tvars>>
    /\ UNCHANGED <<variant, handler_vars, sess, mode, startup>>
    /\ UNCHANGED <<running, now, last_db_save, last_thingspeak, db_call, ts_call,
                   report_at, report_gap, exit_cause, released, cleaned, degraded,
                   drift, db_args>>

\* run() up to the loop: `if not self.mqtt.connect(): return`.
RunConnect ==
    /\ pc = "run"
    /\ IF variant = "main"
       THEN \E outcome \in {"connected", "OSError", "MQTTException"} :
              /\ micro_connect(outcome)
              /\ UNCHANGED <<subs, loop_thread, connack_pending>>
              /\ pc' = IF outcome = "connected" THEN "wait" ELSE "returned"
              /\ startup' = CASE outcome = "connected" -> "ok"
                              [] outcome = "OSError" -> "raised"
                              [] OTHER -> "refused"
       ELSE \E outcome \in {"started", "raised"} :
              /\ paho_connect(outcome)
              /\ UNCHANGED <<connected, client>>
              /\ pc' = IF outcome = "started" THEN "wait" ELSE "returned"
              /\ startup' = IF outcome = "started" THEN "awaited" ELSE "raised"
    /\ UNCHANGED <<variant, handler_vars, sess, mode>>
    /\ UNCHANGED <<running, now, last_db_save, last_thingspeak, db_call, ts_call,
                   report_at, report_gap, exit_cause, released, cleaned, degraded,
                   drift, db_args>>

\* time.sleep(2), then the loop is entered.
EnterLoop ==
    /\ pc = "wait"
    /\ pc' = "loop"
    /\ now' = now + 2
    /\ UNCHANGED <<variant, connected, handler_vars, tvars, sess, mode, startup>>
    /\ UNCHANGED <<running, last_db_save, last_thingspeak, db_call, ts_call,
                   report_at, report_gap, exit_cause, released, cleaned, degraded,
                   drift, db_args>>

\* What database.get_statistics() returns: the figures, or {} when the
\* gateway cannot be reached.
Statistics == {"figures", "empty"}

\* The end of cleanup(), where the statistics are printed: backend_main.py
\* indexes stats['total_readings'], main.py does the same inside try/except.
print_statistics(v, stats) ==
    IF stats = "empty" /\ v = "backend_main" THEN "raised" ELSE "completed"

\* cleanup(): disconnect() is called when the connected flag is set, then the
\* gateway is closed and the statistics are fetched and printed.
cleanup ==
    /\ released' = connected
    /\ IF connected
       THEN IF variant = "main" THEN micro_disconnect ELSE paho_disconnect
       ELSE UNCHANGED <<connected, tvars>>
    /\ \E stats \in Statistics :
         cleaned' = [times |-> cleaned.times + 1, ended |-> print_statistics(variant, stats)]

\* The longest an iteration of the loop lasts: the sleep, the handling of a
\* message and a call of the gateway.
LongestTick == LoopTick + 2 * MaxWork

\* The arguments save_sensor_reading gets from the store sd.
Args(sd) == <<sd.temperature, sd.humidity, sd.light_level>>

\* How late a timer that fires at current_time is, counted from its first
\* firing: the time since the last firing less the interval, added up.
Late(so_far, current_time, last, every) ==
    IF so_far = None THEN 0 ELSE so_far + (current_time - last - every)

\* The two timers of an iteration that read the clock as current_time, where
\* save_to_database comes to saved, calling the gateway (if it does) with
\* args: the persistence tick, then the reporting tick. spent is the time the
\* iteration has taken before them, took the duration of the gateway's
\* save_sensor_reading, ts the outcome of send_to_thingspeak.
TimersAfter(saved, args, current_time, spent, took, ts) ==
    LET db_due == Due(current_time, last_db_save, DbSaveEvery)
        db_time == IF db_due /\ saved.call # "skipped" THEN took ELSE 0
        ts_due == Due(current_time, last_thingspeak, ThingSpeakEvery)
        at == current_time + spent + db_time
    IN  /\ db_call' = IF db_due THEN saved.call ELSE "none"
        /\ db_args' = IF watch = "race" /\ db_due /\ saved.call # "skipped"
                      THEN args ELSE db_args
        /\ IF db_due /\ saved.escapes
           THEN \* the exception leaves the loop; finally: cleanup()
                /\ UNCHANGED <<last_db_save, last_thingspeak, report_at, report_gap, running,
                               degraded, drift>>
                /\ ts_call' = "none"
                /\ now' = at
                /\ pc' = "done"
                /\ exit_cause' = "exception"
                /\ cleanup
           ELSE /\ last_db_save' = IF db_due THEN current_time ELSE last_db_save
                /\ ts_call' = IF ts_due THEN ts ELSE "none"
                /\ last_thingspeak' = IF ts_due THEN current_time ELSE last_thingspeak
                /\ report_at' = IF ts_due THEN at ELSE report_at
                /\ report_gap' = IF ts_due /\ report_at # None
                                 THEN Min(at - report_at, ThingSpeakEvery)
                                 ELSE report_gap
                /\ now' = at + LoopTick   \* time.sleep(1)
                /\ pc' = "loop"
                /\ UNCHANGED <<running, exit_cause, released, cleaned>>
                /\ degraded' = (degraded \/ (watch = "ticks" /\ Down /\ (db_due \/ ts_due)))
                /\ drift' = IF watch = "drift"
                            THEN [db |-> IF db_due
                                         THEN Late(drift.db, current_time, last_db_save,
                                                   DbSaveEvery)
                                         ELSE drift.db,
                                  ts |-> IF ts_due
                                         THEN Late(drift.ts, current_time, last_thingspeak,
                                                   ThingSpeakEvery)
                                         ELSE drift.ts]
                            ELSE drift
                /\ UNCHANGED <<connected, tvars>>

\* The timers of an iteration that finds the store sd, with db the outcome of
\* the gateway's save_sensor_reading.
Timers(sd, current_time, spent, db, took, ts) ==
    TimersAfter(IF variant = "main"
                THEN save_to_database_main(sd, db)
                ELSE save_to_database_backend(sd, db),
                Args(sd), current_time, spent, took, ts)

\* What the gateway's save_sensor_reading and send_to_thingspeak can come to
\* in an iteration that reads the clock as current_time, and how long the
\* former can take; a call that is not due has no outcome to choose.
DbOutcomes(current_time) ==
    IF current_time - last_db_save >= DbSaveEvery THEN {"ok", "fail", "raise"} ELSE {"ok"}
DbDurations(current_time) ==
    IF current_time - last_db_save >= DbSaveEvery THEN 0..MaxWork ELSE {0}
TsOutcomes(current_time) ==
    IF current_time - last_thingspeak >= ThingSpeakEvery THEN {"ok", "fail"} ELSE {"ok"}

\* The clock value the loop is followed up to.
Horizon == IF watch = "drift" THEN DriftTime ELSE MaxTime

\* check_msg() of the MicroPython client reaches client.check_msg(), and the
\* client has a connection to poll.
Polled == connected /\ client # NoClient /\ client \in open_conns

\* How many delivered messages are followed while they wait.
PendCap == 2

\* The broker delivers a message on the session the loop runs with: it waits
\* at the socket of the client main.py polls, or for the network thread of
\* backend_main.py.
Arrive ==
    /\ pc \in {"wait", "loop"}
    /\ IF variant = "main" THEN client \in open_conns
       ELSE loop_thread /\ client \in open_conns /\ ~connack_pending
    /\ pending < PendCap
    /\ pending' = pending + 1
    /\ UNCHANGED <<resumed, fault, errs, writer, failed>>
    /\ UNCHANGED <<prog, outs, hist, tvars, sess, mode, life, startup>>

\* Variation: the loop of main.py goes on whatever the running flag says.
IterateMain_IgnoresStop ==
    /\ variant = "main"
    /\ pc = "loop"
    /\ now < Horizon
    /\ \E db \in DbOutcomes(now), took \in DbDurations(now), ts \in TsOutcomes(now) :
         \/ /\ Polled => pending = 0
            /\ UNCHANGED handler_vars
            /\ Timers(sensor_data, now, 0, db, took, ts)
         \/ /\ Polled
            /\ \E msg \in feed, spent \in 0..MaxWork :
                 LET r == mqtt_on_message(msg, sensor_data, actuator_states, connected)
                 IN  HandledBy(msg, r) /\ Timers(r.sensor_data, now, spent, db, took, ts)
    /\ UNCHANGED <<variant, sess, mode, startup>>

\* One iteration of the loop of main.py: check_msg(), which hands at most one
\* pending message to the handler, then the timers, then the sleep.
IterateMain ==
    /\ variant = "main"
    /\ pc = "loop" /\ running
    /\ now < Horizon
    /\ \E db \in DbOutcomes(now), took \in DbDurations(now), ts \in TsOutcomes(now) :
         \/ /\ Polled => pending = 0
            /\ UNCHANGED handler_vars
            /\ Timers(sensor_data, now, 0, db, took, ts)
         \/ /\ Polled
            /\ \E msg \in feed, spent \in 0..MaxWork :
                 LET r == mqtt_on_message(msg, sensor_data, actuator_states, connected)
                 IN  HandledBy(msg, r) /\ Timers(r.sensor_data, now, spent, db, took, ts)
    /\ UNCHANGED <<variant, sess, mode, startup>>

\* One iteration of the loop of backend_main.py: the timers, then the sleep.
IterateBackend ==
    /\ variant = "backend_main"
    /\ pc = "loop"
    /\ now < Horizon
    /\ \E db \in DbOutcomes(now), took \in DbDurations(now), ts \in TsOutcomes(now) :
         Timers(sensor_data, now, 0, db, took, ts)
    /\ UNCHANGED <<variant, handler_vars, sess, mode, startup>>

\* stop() of main.py.
Stop ==
    /\ variant = "main"
    /\ pc = "loop" /\ running
    /\ running' = FALSE
    /\ UNCHANGED <<variant, connected, handler_vars, tvars, sess, mode, startup>>
    /\ UNCHANGED <<pc, now, last_db_save, last_thingspeak, db_call, ts_call,
                   report_at, report_gap, exit_cause, released, cleaned, degraded,
                   drift, db_args>>

\* The loop is left: `while self.running` finds the flag cleared, or the
\* interrupt (KeyboardInterrupt; in backend_main.py the SIGINT handler's
\* sys.exit) ends it; finally: cleanup().
LeaveLoop ==
    /\ pc = "loop"
    /\ pc' = "done"
    /\ exit_cause' = IF running THEN "interrupt" ELSE "stop"
    /\ running' = IF variant = "main" THEN FALSE ELSE running
    /\ cleanup
    /\ UNCHANGED <<variant, handler_vars, sess, mode, startup>>
    /\ UNCHANGED <<now, last_db_save, last_thingspeak, db_call, ts_call,
                   report_at, report_gap, degraded, drift, db_args>>

InitRun ==
    /\ InitBackend
    /\ InitSession
    /\ InitLife
    /\ watch = "run"
    /\ feed = RunFeed

NextRun ==
    \/ Main
    \/ RunConnect
    \/ EnterLoop
    \/ OnConnect
    \/ OnDisconnect
    \/ Reconnect
    \/ CustomOnMessage
    \/ IterateMain
    \/ IterateBackend
    \/ Stop
    \/ LeaveLoop
    \/ ConnLost

SpecRun == InitRun /\ [][NextRun]_vars

\* The same followed for what the timers do: readings that leave the store
\* incomplete, complete, and complete with a reading of 0.
TickFeed ==
    {[topic |-> SensorTopic("temperature"), payload |-> ObjectPayload("temperature", 20)],
     ScenarioMsg(2), ScenarioMsg(3),
     [topic |-> SensorTopic("light"), payload |-> ObjectPayload("light", 0)]}

InitTick ==
    /\ InitBackend
    /\ InitSession
    /\ InitLife
    /\ now = 0
    /\ watch = "ticks"
    /\ feed = TickFeed

SpecTick == InitTick /\ [][NextRun]_vars

\* The same followed for the messages that wait: they arrive while the loop
\* runs, whatever it is busy with.
InitDrain ==
    /\ InitBackend
    /\ InitSession
    /\ InitLife
    /\ now = 0
    /\ watch = "drain"
    /\ feed = {ScenarioMsg(1), ScenarioMsg(2)}

NextDrain ==
    \/ NextRun
    \/ Arrive

SpecDrain == InitDrain /\ [][NextDrain]_vars

\* The same followed for how late the timers fire: a reading whose handling
\* takes time, and the clock followed further.
InitDrift ==
    /\ InitBackend
    /\ InitSession
    /\ InitLife
    /\ now = 0
    /\ watch = "drift"
    /\ feed = {[topic |-> SensorTopic("temperature"),
                payload |-> ObjectPayload("temperature", 20)]}

SpecDrift == InitDrift /\ [][NextRun]_vars

\* save_to_database of backend_main.py step by step, the network thread
\* running in between: first the test all([...]) on the store as it is,
SaveCheck ==
    /\ variant = "backend_main"
    /\ pc = "loop"
    /\ now < Horizon
    /\ Due(now, last_db_save, DbSaveEvery)
    /\ AllTruthy(sensor_data)
    /\ pc' = "save"
    /\ UNCHANGED <<variant, connected, handler_vars, tvars, sess, mode, startup>>
    /\ UNCHANGED <<running, now, last_db_save, last_thingspeak, db_call, ts_call,
                   report_at, report_gap, exit_cause, released, cleaned, degraded,
                   drift, db_args>>

\* then the three reads of the store as it is by then, and the call, which
\* raises on an argument that is None ("{:.1f}".format); the rest of the
\* iteration follows.
SaveCall ==
    /\ pc = "save"
    /\ \E db \in IF \E i \in 1..3 : Args(sensor_data)[i] = None
                 THEN {"raise"} ELSE {"ok", "fail", "raise"},
          took \in 0..MaxWork, ts \in TsOutcomes(now) :
         TimersAfter([call |-> db, escapes |-> db = "raise"], Args(sensor_data),
                     now, 0, took, ts)
    /\ UNCHANGED <<variant, handler_vars, sess, mode, startup>>

\* The messages delivered meanwhile: the readings, and a temperature message
\* without a value.
RaceFeed ==
    RunFeed \cup {[topic |-> SensorTopic("temperature"), payload |-> ObjectPayload("", None)]}

InitRace ==
    /\ InitBackend
    /\ InitSession
    /\ InitLife
    /\ watch = "race"
    /\ feed = RaceFeed

NextRace ==
    \/ NextRun
    \/ SaveCheck
    \/ SaveCall

SpecRace == InitRace /\ [][NextRace]_vars

\* The handlers fed with malformed messages among readings and watched for
\* the errors raised.
ErrFeed == MalformedMsgs \cup RunFeed

InitErr ==
    /\ InitHandlers
    /\ watch = "errors"
    /\ feed = ErrFeed

SpecErr == InitErr /\ [][Next]_vars

----------------------------------------------------------------------------
(* Properties *)

AllPresent(sd) ==
    sd.temperature # None /\ sd.humidity # None /\ sd.light_level # None

\* C1 (cold-start gate): a step that ends with at least one of temperature,
\* humidity, light_level still None changes no actuator state and is not the
\* work of a message handling that published a command or saved an actuator
\* event or an alert.
C1_ColdStartGate ==
    [][ ~AllPresent(sensor_data')
        => /\ actuator_states' = actuator_states
           /\ sent' = << >>
           /\ saved_events' = << >>
           /\ saved_alerts' = << >> ]_vars

\* A message was handled while humidity was still missing, although the
\* temperature and light it found stored would switch both actuators on.
C1_Witness ==
    /\ last_msg # NoMsg
    /\ sensor_data.temperature = 36
    /\ sensor_data.light_level = 100
    /\ sensor_data.humidity = None
    /\ actuator_states = [fan |-> FALSE, light |-> FALSE]

\* C2 (readiness is kept): once temperature, humidity and light_level are all
\* stored, no step makes one of them None again.
C2_ReadinessKept ==
    [][ AllPresent(sensor_data) => AllPresent(sensor_data') ]_vars

\* C3 (last write wins): as long as every message handled was a sensor reading,
\* the stored value of each kind is the value of the last reading of that kind
\* (None when there was none), however the kinds were interleaved.
C3_LastWriteWins ==
    only_readings => \A k \in Kinds : sensor_data[Key(k)] = last_reading[k]

\* Only readings were handled, all three kinds among them, and the last one
\* replaced a temperature that had switched the fan on.
C3_Witness ==
    /\ only_readings
    /\ acts_before.fan
    /\ ReadingKind(variant, last_msg) = "temperature"
    /\ sensor_data.temperature = 20
    /\ sensor_data.humidity = 80
    /\ sensor_data.light_level = 100

\* C4 (ingestion through the transport callback): a message on the sensor topic
\* of kind k whose payload is a JSON object with value v leaves v stored for k
\* and the other two readings as they were.
C4_Ingestion ==
    [][ \A k \in Kinds :
          ( /\ last_msg'.topic = SensorTopic(k)
            /\ last_msg'.payload.form = "object"
            /\ last_msg'.payload.value # None )
          => /\ sensor_data'[Key(k)] = last_msg'.payload.value
             /\ \A j \in Kinds \ {k} : sensor_data'[Key(j)] = sensor_data[Key(j)] ]_vars

\* C5 (fan transition idempotence): in a run of consecutive evaluations that
\* see the temperature above temperature_high, started with the fan off,
\* exactly one fan command, 'on', was published and exactly one fan event,
\* 'on', was saved, however long the run.
C5_FanIdempotence ==
    hot_run.len >= 1 => (hot_run.sent = << "on" >> /\ hot_run.events = << "on" >>)

\* The run is at least two evaluations long, the last one caused by a humidity
\* reading while the temperature stayed at 30.
C5_Witness ==
    /\ hot_run.len >= 2
    /\ sensor_data.temperature = 30
    /\ ReadingKind(variant, last_msg) = "humidity"
    /\ evaluated
    /\ actuator_states.fan /\ acts_before.fan

\* C6 (critical alert): an evaluation that switches the fan on with the
\* temperature above temperature_critical saves exactly one
\* temperature_critical alert, carrying that temperature; an evaluation that
\* finds the fan on saves none.
C6_CriticalAlert ==
    evaluated =>
      LET crit == AlertsOf("temperature_critical", saved_alerts) IN
        /\ ( /\ ~acts_before.fan
             /\ actuator_states.fan
             /\ sensor_data.temperature > THRESHOLDS.temperature_critical )
           => crit = << Alert("temperature_critical", sensor_data.temperature) >>
        /\ acts_before.fan => crit = << >>

\* The fan was switched on by a temperature of 36 and the alert was saved.
C6_Witness ==
    /\ evaluated
    /\ ~acts_before.fan
    /\ actuator_states.fan
    /\ sensor_data.temperature = 36
    /\ saved_alerts = << Alert("temperature_critical", 36) >>

ScnCritical == Len(AlertsOf("temperature_critical", scn.alerts))

\* C7 (scenario, thresholds 28/35/70/300), as the spec states it: after
\* temperature=30, humidity=50, light=500 the fan is on with one 'on' command
\* and event, no critical alert, light off; after temperature=36 exactly one
\* critical alert, fan still on, no second 'on' event; after temperature=20 one
\* fan 'off' command and event; after light=100 one light 'on' command.
C7_Scenario ==
    /\ scn.step = 3 =>
         /\ actuator_states = [fan |-> TRUE, light |-> FALSE]
         /\ ActionsOf("fan", scn.sent) = << "on" >>
         /\ EventActionsOf("fan", scn.events) = << "on" >>
         /\ ScnCritical = 0
    /\ scn.step = 4 =>
         /\ ScnCritical = 1
         /\ actuator_states.fan
         /\ EventActionsOf("fan", scn.events) = << "on" >>
    /\ scn.step = 5 =>
         /\ ~actuator_states.fan
         /\ ActionsOf("fan", scn.sent) = << "on", "off" >>
         /\ EventActionsOf("fan", scn.events) = << "on", "off" >>
    /\ scn.step = 6 =>
         /\ actuator_states.light
         /\ ActionsOf("light", scn.sent) = << "on" >>

\* C7 as amended: the same, except that after temperature=36 no critical alert
\* has been raised (the fan was already on).
C7_ScenarioAmended ==
    /\ scn.step = 3 =>
         /\ actuator_states = [fan |-> TRUE, light |-> FALSE]
         /\ ActionsOf("fan", scn.sent) = << "on" >>
         /\ EventActionsOf("fan", scn.events) = << "on" >>
         /\ ScnCritical = 0
    /\ scn.step = 4 =>
         /\ ScnCritical = 0
         /\ actuator_states.fan
         /\ EventActionsOf("fan", scn.events) = << "on" >>
    /\ scn.step = 5 =>
         /\ ~actuator_states.fan
         /\ ActionsOf("fan", scn.sent) = << "on", "off" >>
         /\ EventActionsOf("fan", scn.events) = << "on", "off" >>
    /\ scn.step = 6 =>
         /\ actuator_states.light
         /\ ActionsOf("light", scn.sent) = << "on" >>

\* The whole scenario has run.
C7_Witness ==
    /\ scn.step = Len(Scenario)
    /\ sensor_data.temperature = 20
    /\ sensor_data.light_level = 100

\* C8 (humidity alert, not gated): an evaluation that sees humidity above
\* humidity_high saves exactly one humidity_high alert carrying the humidity,
\* an evaluation that does not saves none, and a run of k consecutive
\* evaluations above the threshold has saved k of them.
C8_HumidityAlert ==
    /\ hum_run.alerts = hum_run.len
    /\ evaluated =>
         AlertsOf("humidity_high", saved_alerts) =
           IF sensor_data.humidity > THRESHOLDS.humidity_high
           THEN << Alert("humidity_high", sensor_data.humidity) >>
           ELSE << >>

\* A second consecutive evaluation with humidity 80, nothing switched.
C8_Witness ==
    /\ hum_run.len >= 2
    /\ evaluated
    /\ sensor_data.humidity = 80
    /\ acts_before = actuator_states
    /\ saved_alerts = << Alert("humidity_high", 80) >>

\* C9 (fan rule): after an evaluation the fan is on iff the stored temperature
\* is strictly above temperature_high.
C9_FanRule ==
    evaluated =>
      (actuator_states.fan <=> sensor_data.temperature > THRESHOLDS.temperature_high)

\* The temperature came down to exactly the threshold and the fan was switched off.
C9_Witness ==
    /\ evaluated
    /\ sensor_data.temperature = THRESHOLDS.temperature_high
    /\ acts_before.fan
    /\ ~actuator_states.fan

\* C10 (light rule): after an evaluation the light is on iff the stored
\* light_level is strictly below light_threshold; only temperature_critical
\* and humidity_high alerts are ever saved, and an evaluation that switches
\* the light, leaves the fan alone and sees no high humidity saves no alert.
C10_LightRule ==
    evaluated =>
      /\ actuator_states.light <=> sensor_data.light_level < THRESHOLDS.light_threshold
      /\ \A i \in 1..Len(saved_alerts) :
           saved_alerts[i].alert_type \in {"temperature_critical", "humidity_high"}
      /\ ( /\ acts_before.light # actuator_states.light
           /\ acts_before.fan = actuator_states.fan
           /\ sensor_data.humidity <= THRESHOLDS.humidity_high )
         => saved_alerts = << >>

\* The light level rose to exactly the threshold and the light was switched
\* off, with its command and without an alert.
C10_Witness ==
    /\ evaluated
    /\ sensor_data.light_level = THRESHOLDS.light_threshold
    /\ acts_before.light
    /\ ~actuator_states.light
    /\ ActionsOf("light", sent) = << "off" >>
    /\ saved_alerts = << >>

StateAction(on) == IF on THEN "on" ELSE "off"

\* C11 (command accompanies state change): a step that changes
\* actuator_states[a] is the work of an evaluation that published exactly one
\* command on smarthome/commands/<a>, with the new state as its action. No
\* message is handled, hence no rule evaluated, while the client is not
\* connected.
C11_CommandWithChange ==
    [][ \A a \in {"fan", "light"} :
          actuator_states'[a] # actuator_states[a]
          => /\ Len(SelectSeq(sent', LAMBDA c : c.topic = CommandTopic(a))) = 1
             /\ ActionsOf(a, sent') = << StateAction(actuator_states'[a]) >> ]_vars

\* One evaluation switched both actuators on and published both commands.
C11_Witness ==
    /\ evaluated
    /\ acts_before = [fan |-> FALSE, light |-> FALSE]
    /\ actuator_states = [fan |-> TRUE, light |-> TRUE]
    /\ ActionsOf("fan", sent) = << "on" >>
    /\ ActionsOf("light", sent) = << "on" >>

\* C12 (actuator events): an evaluation that switches an actuator, fan or
\* light, saves exactly one actuator event for it, with the actuator's name,
\* the new action and auto_triggered = True.
C12_ActuatorEvents ==
    evaluated =>
      \A a \in {"fan", "light"} :
        acts_before[a] # actuator_states[a]
        => SelectSeq(saved_events, LAMBDA e : e.actuator_type = a)
             = << ActuatorEvent(a, StateAction(actuator_states[a])) >>

\* C20 (published commands alternate): for each actuator the commands
\* published so far start with 'on' and no two consecutive ones are equal.
C20_Alternation ==
    \A a \in {"fan", "light"} :
      /\ Len(published[a]) = 1 => published[a] = << "on" >>
      /\ Len(published[a]) = 2 => published[a][1] # published[a][2]

\* The fan got at least three commands, the light at least two, and between
\* two of the commands the session went down and came back.
C20_Witness ==
    /\ published.fan = << "off", "on" >>
    /\ published.light = << "on", "off" >>
    /\ resumed = 3

\* C14 (publishing while not connected): a publish operation of the transport
\* session called while the connected flag is False returns False, calls
\* publish on the underlying client not once, and lets no exception out.
C14_PublishWhileDown ==
    (api.op # "none" /\ ~api.flag)
    => (~api.returned /\ api.passed_on = 0 /\ ~api.raised)

\* publish_sensor_data was called after the session, subscriptions and all,
\* had gone down.
C14_Witness ==
    /\ api.op = "publish_sensor_data"
    /\ ~api.flag
    /\ ~api.returned
    /\ wanted # {}
    /\ ~connected

\* The session is established: the flag is set and the client's connection
\* is open and answered.
SessionUp == connected /\ client \in open_conns /\ ~connack_pending

\* C15 (subscriptions after a reconnect): whenever the session is established
\* again after it went down, every filter that was subscribed when it went
\* down, smarthome/sensors/# among them, is subscribed on the live connection.
C15_Resubscribed ==
    SessionUp => wanted \subseteq FiltersOf(client, subs)

\* C16 (connect() called again, MicroPython client): when connect() has
\* succeeded, no connection of an earlier client is still open, and every
\* filter subscribed on an earlier client is subscribed on the client that is
\* polled.
C16_RepeatedConnect ==
    (variant = "main" /\ connected)
    => /\ open_conns \subseteq {client}
       /\ \A sb \in subs : <<client, sb[2]>> \in subs

\* C13 (reporting interval floor): any two consecutive invocations of
\* send_to_thingspeak by the loop are at least the reporting interval, 20,
\* apart, whatever was handled in between.
C13_ReportingFloor ==
    report_gap = None \/ report_gap >= ThingSpeakEvery

\* C17 (start-up connect failure): when the connection attempt of run() has
\* failed, because it raised or because the broker refused, run() does not
\* enter the loop and no persistence or reporting call is made; and run()
\* returns before the loop for no other reason.
C17_StartupAbort ==
    /\ startup \in {"raised", "refused"}
       => /\ pc \notin {"loop", "done"}
          /\ db_call = "none" /\ ts_call = "none" /\ report_at = None
    /\ pc = "returned" => startup \in {"raised", "refused"}

\* C18 (persistence and reporting failures): after an iteration in which the
\* persistence call or send_to_thingspeak failed, by a failure value or by an
\* exception, the loop is still running unless a stop request or an
\* interrupt ended it.
C18_FailuresNotFatal ==
    (db_call \in {"fail", "raise"} \/ ts_call = "fail")
    => exit_cause \in {"none", "stop", "interrupt"}

\* C19 (release of the session): once the loop has been left, however the
\* connected flag stood, cleanup has invoked disconnect() and, in the
\* library-backed variant, the network thread is stopped.
C19_Released ==
    pc = "done" => (released /\ (variant = "backend_main" => ~loop_thread))

\* C21 (alerts are published): every alert an evaluation raised
\* (temperature_critical, humidity_high) was published by that evaluation on
\* the alert topic at QoS 2, above the QoS of every command it published.
C21_AlertsPublished ==
    evaluated =>
      \A i \in 1..Len(saved_alerts) :
        /\ Len(SelectSeq(sent, LAMBDA c : c.topic = AlertTopic /\ c.qos = 2)) >= i
        /\ \A j \in 1..Len(sent) : sent[j].topic # AlertTopic => sent[j].qos < 2

\* The topics the backend publishes its commands on.
ActuatorTopics == {CommandTopic(a) : a \in {"fan", "light"}}

\* C22 (no echo cycle): handling a message that arrived on an actuator command
\* topic changes neither an actuator state nor a stored reading.
C22_NoEcho ==
    [][ last_msg'.topic \in ActuatorTopics
        => /\ actuator_states' = actuator_states
           /\ \A k \in Kinds : sensor_data'[Key(k)] = sensor_data[Key(k)] ]_vars

\* C25 (malformed payloads are ignored): handling a message whose payload is
\* no JSON, or is a JSON object without a value, leaves the three readings and
\* both actuator states as they were, whatever its topic.
C25_MalformedIgnored ==
    [][ (\/ last_msg'.payload.form = "garbage"
         \/ (last_msg'.payload.form = "object" /\ last_msg'.payload.value = None))
        => /\ actuator_states' = actuator_states
           /\ \A k \in Kinds : sensor_data'[Key(k)] = sensor_data[Key(k)] ]_vars

\* C23 (persistence tick): in an iteration that finds the persistence timer
\* due, save_sensor_reading is called when temperature, humidity and
\* light_level are all present, 0 included, and is not called otherwise.
C23_PersistenceTick ==
    [][ (/\ pc = "loop"
         /\ (now' # now \/ exit_cause' = "exception")
         /\ now - last_db_save >= DbSaveEvery)
        => (AllPresent(sensor_data') <=> db_call' \in {"ok", "fail", "raise"}) ]_vars

C27_LossSurfaced ==
    [][ /\ (variant = "main" /\ client \notin open_conns /\ api' # api /\ api'.flag
              /\ ~api'.returned /\ api'.passed_on > 0)
           => ~connected'
        /\ (variant = "backend_main" /\ loop_thread' /\ open_conns # {} /\ open_conns' = {})
           => ~connected'
        /\ ~retried' ]_vars

C29_StatisticsBestEffort ==
    cleaned.ended # "raised"

\* C30 (single writer): sensor_data and actuator_states are never written by
\* the transport's network thread.
C30_SingleWriter ==
    writer # "network"

\* C34 (sensor subscription at start-up): once the loop has started, the
\* filter smarthome/sensors/# is subscribed on the connection of the
\* established session, the one messages are delivered on.
C34_SensorSubscription ==
    (pc = "loop" /\ SessionUp) => <<client, SensorFilter>> \in subs

\* The kind the handler of variant v files msg under, "none" when its topic
\* (backend_main.py) or its "actuator" member (main.py) names no kind.
Classified(v, msg) ==
    IF v = "backend_main" THEN TopicKind(msg.topic)
    ELSE IF msg.payload.form = "object" THEN ActuatorKind(msg.payload.actuator)
         ELSE "none"

\* C35 (unclassified messages are silent): a message the handler files under
\* no sensor kind publishes no command and saves no actuator event and no
\* alert, whatever the store holds.
C35_UnclassifiedSilent ==
    (last_msg # NoMsg /\ Classified(variant, last_msg) = "none")
    => (sent = << >> /\ saved_events = << >> /\ saved_alerts = << >>)

\* The handlers fed with readings that switch the fan, with calls made for
\* the switch failing.
FailFeed ==
    {[topic |-> SensorTopic(k), payload |-> ObjectPayload(k, v)] :
        k \in Kinds, v \in {20, 30, 36, 50, 80, 100, 500}} \cap SensorMsgs

InitFail ==
    /\ InitHandlers
    /\ watch = "failures"
    /\ feed = FailFeed

SpecFail == InitFail /\ [][Next]_vars

\* C36 (rules independent of downstream failures): an evaluation in which the
\* command publish or the event save of the fan transition failed, by return
\* value or by exception, still ran the humidity rule and the light rule:
\* an alert was saved when humidity is above humidity_high, and the light
\* state equals (light_level < light_threshold).
C36_RulesIndependent ==
    (evaluated /\ failed # "none")
    => /\ actuator_states.light = (sensor_data.light_level < THRESHOLDS.light_threshold)
       /\ sensor_data.humidity > THRESHOLDS.humidity_high
          => AlertsOf("humidity_high", saved_alerts) # << >>

\* C31 (each iteration drains what is pending): after an iteration of the
\* loop that polls the session, none of the messages that were pending when
\* it began is still waiting.
C31_Drained ==
    [][ (variant = "main" /\ pc = "loop" /\ Polled /\ now' # now) => pending' = 0 ]_vars

\* C32 (the timers do not drift): the n-th firing of the persistence timer
\* and of the reporting timer after the first is no more than one loop tick,
\* taken as long as an iteration can last, later than the first firing plus n
\* intervals.
C32_NoDrift ==
    drift.db <= LongestTick /\ drift.ts <= LongestTick

\* C33 (presence check and reads agree): in the library-backed variant
\* save_sensor_reading is never called with an argument that is None.
C33_NoNoneSaved ==
    variant = "backend_main" => \A i \in 1..Len(db_args) : db_args[i] # None

====
